---- MODULE Spec2Model ----
(***************************************************************************)
(* RAG incident copilot.                                                   *)
(*                                                                         *)
(* Three state machines share this module:                                 *)
(*   SpecApp     - the App component (alert form, Analyze, Load Sample,    *)
(*                 LogUploader) and the analyze requests it has in flight; *)
(*   SpecPanel   - the MetricsPanel component and its loads in flight;     *)
(*   SpecBackend - the analysis pipeline and the MetricsStore, as          *)
(*                 sections 4.3, 4.4, 5 and 7 of the specification         *)
(*                 describe them.                                          *)
(*                                                                         *)
(* JSON values are written as their JSON text ("null", "0", "{...}"), so   *)
(* that JavaScript truthiness is a property of the text.                   *)
(***************************************************************************)
EXTENDS Integers, Sequences, FiniteSets, TLC

VARIABLES
  \* ---- App (useState hooks) ----
  alertText, logJson, logFileName, isLoading, error, result,
  fileInput,        \* LogUploader: value of the <input type="file">
  inflight,         \* analyze requests posted and not yet settled
  analyzeCount,     \* number of handleAnalyze calls so far
  lastSettle,       \* how the last analyze request settled
  sampledInFlight,  \* Load Sample was pressed while the current request was in flight
  \* ---- MetricsPanel (useState hooks) ----
  rows, summary, limit, loading, err,
  loads,            \* load() calls in flight
  loadCount,        \* number of load() calls so far
  lastLoad,         \* the most recently started load and how it settled
  \* ---- Backend ----
  store,            \* MetricsStore: committed rows, in insertion order
  nextId,           \* MetricsStore: identifier counter
  writeLock,        \* MetricsStore: the writer inside record, or NoReq
  phase,            \* per request: state of the orchestrator's state machine
  passages,         \* per request: number of retrieved passages
  retrievalFailed,  \* per request: retrieval raised RetrievalError
  outcome,          \* per request: the terminal outcome analyze settled on
  metric,           \* per request: the MetricsRecord constructed
  handed,           \* per request: number of records handed to MetricsStore
  writeResult,      \* per request: "none", "pending", "ok", "MetricsWriteError"
  pendingId,        \* per request: identifier read inside record
  returned          \* per request: what the caller received

appVars == <<alertText, logJson, logFileName, isLoading, error, result,
             fileInput, inflight, analyzeCount, lastSettle, sampledInFlight>>
panelVars == <<rows, summary, limit, loading, err, loads, loadCount, lastLoad>>
backendVars == <<store, nextId, writeLock, phase, passages, retrievalFailed,
                 outcome, metric, handed, writeResult, pendingId, returned>>
vars == <<appVars, panelVars, backendVars>>

(***************************************************************************)
(* Bounds                                                                  *)
(***************************************************************************)
MaxAnalyses == 3
MaxLoads == 2
MaxLimit == 2
MaxRows == 3
NumReq == 2
TopK == 1

(***************************************************************************)
(* JSON text and JavaScript truthiness                                     *)
(***************************************************************************)
Null == "null"
Falsy == {"null", "0", "false", "\"\"", ""}
Truthy(v) == v \notin Falsy
\* a || b
Or(a, b) == IF Truthy(a) THEN a ELSE b

(***************************************************************************)
(* api.js                                                                  *)
(***************************************************************************)
ClientTimeoutMs == 30000
DefaultMetricsLimit == 50
DefaultSummaryLimit == 200

\* The body analyzeAlert posts to /analyze.
analyzeAlert(text, log) ==
  [alertText |-> Or(text, ""), logFile |-> Or(log, Null)]

\* Variant: the limit asked for is dropped and the default is sent.
fetchMetricsIgnoresLimit(lim) == [path |-> "/metrics", limit |-> DefaultMetricsLimit]
\* The query fetchMetrics sends to GET /metrics.
fetchMetrics(lim) == [path |-> "/metrics", limit |-> lim]

\* The query fetchMetricsSummary sends to GET /metrics/summary.
fetchMetricsSummary(lim) == [path |-> "/metrics/summary", limit |-> lim]

(***************************************************************************)
(* App: inputs                                                             *)
(***************************************************************************)
SampleAlert == "Multiple failed logins detected from several IPs targeting user admin."
SampleLog == "{\"source\":\"auth.service\",\"events\":[...]}"
SampleLogName == "sample-auth-log.json"
FallbackError == "Failed to analyze. Is the backend running on VITE_API_URL?"

\* What the user can type into the textarea.
AlertTexts == {"", " ", "disk full on db-1", SampleAlert}
\* What JSON.parse can return for an uploaded file (any JSON value).
UploadedJson == {"{\"a\":1}", "[]", "0", "false", "\"\"", "null"}
FileNames == {"log.json"}
\* Bodies of a 2xx answer of POST /analyze (an AnalysisResult, section 6).
AnalysisResults == {"{\"alert\":..,\"response\":\"steps\",\"sources\":[..]}",
                    "{\"alert\":..,\"response\":\"steps\",\"sources\":[]}"}
\* What the await in handleAnalyze can throw: an axios error with or without
\* response.data.detail, with or without a message.
AnalyzeErrors ==
  { [kind |-> "http",    detail |-> "GenerationError: model timeout", message |-> "Request failed with status code 500"],
    [kind |-> "http",    detail |-> "", message |-> "Request failed with status code 502"],
    [kind |-> "network", detail |-> "", message |-> "Network Error"],
    [kind |-> "timeout", detail |-> "", message |-> "timeout of 30000ms exceeded"],
    [kind |-> "thrown",  detail |-> "", message |-> ""] }

\* Variant: the literal fallback message is left out.
ErrorTextNoFallback(e) == Or(e.detail, e.message)
\* e?.response?.data?.detail || e?.message || '<fallback>'
ErrorText(e) == Or(e.detail, Or(e.message, FallbackError))

\* Variants: the button looks at only one of the two conditions.
AnalyzeDisabledLoadingOnly == isLoading
AnalyzeDisabledTextOnly == ~Truthy(alertText)
\* disabled={!alertText || isLoading} on the Analyze button.
AnalyzeDisabled == ~Truthy(alertText) \/ isLoading

InitApp ==
  /\ alertText = ""
  /\ logJson = Null
  /\ logFileName = ""
  /\ isLoading = FALSE
  /\ error = ""
  /\ result = Null
  /\ fileInput = ""
  /\ inflight = {}
  /\ analyzeCount = 0
  /\ lastSettle = "none"
  /\ sampledInFlight = FALSE

(***************************************************************************)
(* App: event handlers                                                     *)
(***************************************************************************)
\* textarea onChange
SetAlertText(t) ==
  /\ t # alertText
  /\ alertText' = t
  /\ UNCHANGED <<logJson, logFileName, isLoading, error, result, fileInput,
                 inflight, analyzeCount, lastSettle, sampledInFlight>>
  /\ UNCHANGED <<panelVars, backendVars>>

loadSample ==
  /\ alertText' = SampleAlert
  /\ logJson' = SampleLog
  /\ logFileName' = SampleLogName
  /\ result' = Null
  /\ error' = ""
  /\ sampledInFlight' = (inflight # {})
  /\ UNCHANGED <<isLoading, fileInput, inflight, analyzeCount, lastSettle>>
  /\ UNCHANGED <<panelVars, backendVars>>

\* LogUploader.handleFile, the file holds valid JSON: onLoad(json, file.name)
handleFileValid(json, name) ==
  /\ fileInput' = name
  /\ logJson' = json
  /\ logFileName' = name
  /\ UNCHANGED <<alertText, isLoading, error, result, inflight, analyzeCount,
                 lastSettle, sampledInFlight>>
  /\ UNCHANGED <<panelVars, backendVars>>

\* LogUploader.handleFile, JSON.parse throws: the input is emptied, no onLoad
handleFileInvalid ==
  /\ fileInput # ""
  /\ fileInput' = ""
  /\ UNCHANGED <<alertText, logJson, logFileName, isLoading, error, result,
                 inflight, analyzeCount, lastSettle, sampledInFlight>>
  /\ UNCHANGED <<panelVars, backendVars>>

\* LogUploader Clear button: empties the input and calls onClear
handleClear ==
  /\ fileInput' = ""
  /\ logJson' = Null
  /\ logFileName' = ""
  /\ \/ fileInput # ""
     \/ logJson # Null
     \/ logFileName # ""
  /\ UNCHANGED <<alertText, isLoading, error, result, inflight, analyzeCount,
                 lastSettle, sampledInFlight>>
  /\ UNCHANGED <<panelVars, backendVars>>

\* handleAnalyze up to the await: the click reaches it only while the button
\* is enabled.
handleAnalyze ==
  /\ ~AnalyzeDisabled
  /\ analyzeCount < MaxAnalyses
  /\ analyzeCount' = analyzeCount + 1
  /\ isLoading' = TRUE
  /\ error' = ""
  /\ result' = Null
  /\ inflight' = inflight \cup
       {[id |-> analyzeCount + 1,
         text |-> alertText,
         log |-> logJson,
         timeout |-> ClientTimeoutMs,
         body |-> analyzeAlert(alertText, logJson)]}
  /\ sampledInFlight' = FALSE
  /\ UNCHANGED <<alertText, logJson, logFileName, fileInput, lastSettle>>
  /\ UNCHANGED <<panelVars, backendVars>>

\* the await resolves: setResult(res), finally setIsLoading(false)
analyzeResolved(r, res) ==
  /\ r \in inflight
  /\ inflight' = inflight \ {r}
  /\ result' = res
  /\ isLoading' = FALSE
  /\ lastSettle' = "response"
  /\ UNCHANGED <<alertText, logJson, logFileName, error, fileInput,
                 analyzeCount, sampledInFlight>>
  /\ UNCHANGED <<panelVars, backendVars>>

\* the await throws: setError(...), finally setIsLoading(false)
analyzeRejected(r, e) ==
  /\ r \in inflight
  /\ inflight' = inflight \ {r}
  /\ error' = ErrorText(e)
  /\ isLoading' = FALSE
  /\ lastSettle' = e.kind
  /\ UNCHANGED <<alertText, logJson, logFileName, result, fileInput,
                 analyzeCount, sampledInFlight>>
  /\ UNCHANGED <<panelVars, backendVars>>

Settle ==
  \E r \in inflight :
    \/ \E res \in AnalysisResults : analyzeResolved(r, res)
    \/ \E e \in AnalyzeErrors : analyzeRejected(r, e)

NextApp ==
  \/ \E t \in AlertTexts : SetAlertText(t)
  \/ loadSample
  \/ \E json \in UploadedJson, name \in FileNames : handleFileValid(json, name)
  \/ handleFileInvalid
  \/ handleClear
  \/ handleAnalyze
  \/ \E r \in inflight, res \in AnalysisResults : analyzeResolved(r, res)
  \/ \E r \in inflight, e \in AnalyzeErrors : analyzeRejected(r, e)

(***************************************************************************)
(* MetricsStore (specification 4.4, 5): rows, recent, summarize            *)
(***************************************************************************)
Min(a, b) == IF a < b THEN a ELSE b

\* recent(limit): the last `lim` rows, most recent first.
Recent(s, lim) ==
  [i \in 1..Min(lim, Len(s)) |-> s[Len(s) + 1 - i]]

\* summarize(limit): count and successes of the `lim` most recent rows; with
\* no rows the rate is the neutral value 0.
Summarize(s, lim) ==
  LET w == Recent(s, lim)
      ok == Cardinality({i \in 1..Len(w) : w[i].success})
  IN [count |-> Len(w),
      successes |-> ok,
      ratePct |-> IF Len(w) = 0 THEN 0 ELSE (100 * ok) \div Len(w)]

\* A store as the panel can find it: k rows with identifiers 1..k.
StoredRows(k) ==
  [i \in 1..k |->
     [id |-> i, req |-> 0, success |-> (i % 2 = 1), numSources |-> 0,
      topK |-> TopK, error |-> IF i % 2 = 1 THEN "" ELSE "GenerationError"]]

\* GET /metrics and GET /metrics/summary answering a client query.
GetRecent(query) == Recent(store, query.limit)
GetSummary(query) == Summarize(store, query.limit)

(***************************************************************************)
(* MetricsPanel                                                            *)
(***************************************************************************)
\* What the user can leave in the limit input (Number(e.target.value)).
PanelLimits == (0..MaxLimit) \cup {DefaultMetricsLimit}
\* What Promise.all can reject with.
LoadErrors ==
  { [kind |-> "http",    detail |-> "Internal Server Error", message |-> "Request failed with status code 500"],
    [kind |-> "network", detail |-> "", message |-> "Network Error"] }

Pending == [st |-> "pending", data |-> <<>>]
Answered(d) == [st |-> "ok", data |-> d]

\* load() up to the await: both requests are issued with the limit rendered.
NewLoad(n) ==
  [id |-> n,
   limit |-> limit,
   metricsQuery |-> fetchMetrics(limit),
   summaryQuery |-> fetchMetricsSummary(DefaultSummaryLimit),
   m |-> Pending,
   s |-> Pending]

\* After mount: useEffect has called load() once.
InitPanel ==
  /\ rows = <<>>
  /\ summary = <<>>
  /\ limit = DefaultMetricsLimit
  /\ loading = TRUE
  /\ err = ""
  /\ loadCount = 1
  /\ loads = {NewLoad(1)}
  /\ lastLoad = [id |-> 1, limit |-> DefaultMetricsLimit, settled |-> "pending"]

\* limit input onChange
setLimit(l) ==
  /\ l # limit
  /\ limit' = l
  /\ UNCHANGED <<rows, summary, loading, err, loads, loadCount, lastLoad>>
  /\ UNCHANGED <<appVars, backendVars>>

\* Refresh button: load() up to the await
load ==
  /\ loadCount < MaxLoads
  /\ loadCount' = loadCount + 1
  /\ loading' = TRUE
  /\ err' = ""
  /\ loads' = loads \cup {NewLoad(loadCount + 1)}
  /\ lastLoad' = [id |-> loadCount + 1, limit |-> limit, settled |-> "pending"]
  /\ UNCHANGED <<rows, summary, limit>>
  /\ UNCHANGED <<appVars, backendVars>>

Settled(ld, how) ==
  IF lastLoad.id = ld.id THEN [lastLoad EXCEPT !.settled = how] ELSE lastLoad

\* the server answers GET /metrics of a load
metricsAnswered(ld) ==
  /\ ld \in loads
  /\ ld.m.st = "pending"
  /\ loads' = (loads \ {ld}) \cup {[ld EXCEPT !.m = Answered(GetRecent(ld.metricsQuery))]}
  /\ UNCHANGED <<rows, summary, limit, loading, err, loadCount, lastLoad>>
  /\ UNCHANGED <<appVars, backendVars>>

\* the server answers GET /metrics/summary of a load
summaryAnswered(ld) ==
  /\ ld \in loads
  /\ ld.s.st = "pending"
  /\ loads' = (loads \ {ld}) \cup {[ld EXCEPT !.s = Answered(<<GetSummary(ld.summaryQuery)>>)]}
  /\ UNCHANGED <<rows, summary, limit, loading, err, loadCount, lastLoad>>
  /\ UNCHANGED <<appVars, backendVars>>

\* Promise.all resolves: setRows(m), setSummary(s), finally setLoading(false)
loadResolved(ld) ==
  /\ ld \in loads
  /\ ld.m.st = "ok"
  /\ ld.s.st = "ok"
  /\ rows' = ld.m.data
  /\ summary' = ld.s.data
  /\ loading' = FALSE
  /\ loads' = loads \ {ld}
  /\ lastLoad' = Settled(ld, "ok")
  /\ UNCHANGED <<limit, err, loadCount>>
  /\ UNCHANGED <<appVars, backendVars>>

\* a request of the load fails, Promise.all rejects: setErr(...), finally
\* setLoading(false)
loadRejected(ld, e) ==
  /\ ld \in loads
  /\ \/ ld.m.st = "pending"
     \/ ld.s.st = "pending"
  /\ err' = Or(e.detail, e.message)
  /\ loading' = FALSE
  /\ loads' = loads \ {ld}
  /\ lastLoad' = Settled(ld, "failed")
  /\ UNCHANGED <<rows, summary, limit, loadCount>>
  /\ UNCHANGED <<appVars, backendVars>>

NextPanel ==
  \/ \E l \in PanelLimits : setLimit(l)
  \/ load
  \/ \E ld \in loads : metricsAnswered(ld)
  \/ \E ld \in loads : summaryAnswered(ld)
  \/ \E ld \in loads : loadResolved(ld)
  \/ \E ld \in loads, e \in LoadErrors : loadRejected(ld, e)

(***************************************************************************)
(* AnalysisOrchestrator (specification 4.3, 7) over the MetricsStore       *)
(***************************************************************************)
Req == 1..NumReq
NoReq == 0
\* Alert texts a caller can submit.
SubmittedTexts == {"", "disk full on db-1"}
\* Limits a reader can ask GET /metrics for.
ReadLimits == 0..MaxLimit
Terminal == {"COMPLETED", "FAILED"}
NoMetric == [success |-> FALSE, numSources |-> -1, topK |-> -1, error |-> "unset"]

\* The MetricsRecord built on a terminal outcome: success flag, passage
\* count, configured topK and, on failure, the error classification.
MetricsRecord(ok, n, kind) ==
  [success |-> ok, numSources |-> n, topK |-> TopK, error |-> IF ok THEN "" ELSE kind]

InitBackend ==
  /\ writeLock = NoReq
  /\ phase = [r \in Req |-> "IDLE"]
  /\ passages = [r \in Req |-> 0]
  /\ retrievalFailed = [r \in Req |-> FALSE]
  /\ outcome = [r \in Req |-> "none"]
  /\ metric = [r \in Req |-> NoMetric]
  /\ handed = [r \in Req |-> 0]
  /\ writeResult = [r \in Req |-> "none"]
  /\ pendingId = [r \in Req |-> 0]
  /\ returned = [r \in Req |-> "none"]

storeVars == <<store, nextId, writeLock, handed, writeResult, pendingId>>

\* analyze(request): validation, before any external call.
analyze(r, text) ==
  /\ phase[r] = "IDLE"
  /\ IF text = ""
       THEN /\ phase' = [phase EXCEPT ![r] = "REJECTED"]
            /\ returned' = [returned EXCEPT ![r] = "ValidationError"]
       ELSE /\ phase' = [phase EXCEPT ![r] = "RECEIVED"]
            /\ UNCHANGED returned
  /\ UNCHANGED <<storeVars, passages, retrievalFailed, outcome, metric>>
  /\ UNCHANGED <<appVars, panelVars>>

\* RECEIVED -> RETRIEVING
startRetrieval(r) ==
  /\ phase[r] = "RECEIVED"
  /\ phase' = [phase EXCEPT ![r] = "RETRIEVING"]
  /\ UNCHANGED <<storeVars, passages, retrievalFailed, outcome, metric, returned>>
  /\ UNCHANGED <<appVars, panelVars>>

\* RETRIEVING -> GENERATING: retrieve returned k passages (possibly none)
retrieved(r, k) ==
  /\ phase[r] = "RETRIEVING"
  /\ phase' = [phase EXCEPT ![r] = "GENERATING"]
  /\ passages' = [passages EXCEPT ![r] = k]
  /\ UNCHANGED <<storeVars, retrievalFailed, outcome, metric, returned>>
  /\ UNCHANGED <<appVars, panelVars>>

\* Reaching a terminal state: the outcome is fixed and its record is built.
Finish(r, ph, out, n) ==
  /\ phase' = [phase EXCEPT ![r] = ph]
  /\ outcome' = [outcome EXCEPT ![r] = out]
  /\ metric' = [metric EXCEPT ![r] = MetricsRecord(ph = "COMPLETED", n, out)]

\* Variant: a retrieval failure aborts the request with RetrievalError.
retrievalFailedAbort(r) ==
  /\ phase[r] = "RETRIEVING"
  /\ retrievalFailed' = [retrievalFailed EXCEPT ![r] = TRUE]
  /\ Finish(r, "FAILED", "RetrievalError", 0)
  /\ UNCHANGED <<storeVars, passages, returned>>
  /\ UNCHANGED <<appVars, panelVars>>

\* RETRIEVING -> GENERATING(no-context): RetrievalError is absorbed
retrievalFails(r) ==
  /\ phase[r] = "RETRIEVING"
  /\ phase' = [phase EXCEPT ![r] = "GENERATING"]
  /\ passages' = [passages EXCEPT ![r] = 0]
  /\ retrievalFailed' = [retrievalFailed EXCEPT ![r] = TRUE]
  /\ UNCHANGED <<storeVars, outcome, metric, returned>>
  /\ UNCHANGED <<appVars, panelVars>>

\* GENERATING -> COMPLETED
generated(r) ==
  /\ phase[r] = "GENERATING"
  /\ Finish(r, "COMPLETED", "AnalysisResult", passages[r])
  /\ UNCHANGED <<storeVars, passages, retrievalFailed, returned>>
  /\ UNCHANGED <<appVars, panelVars>>

\* GENERATING -> FAILED: GenerationError, no retry
generationFails(r) ==
  /\ phase[r] = "GENERATING"
  /\ Finish(r, "FAILED", "GenerationError", passages[r])
  /\ UNCHANGED <<storeVars, passages, retrievalFailed, returned>>
  /\ UNCHANGED <<appVars, panelVars>>

\* the wall-clock budget runs out during retrieval or generation
budgetExceeded(r) ==
  /\ phase[r] \in {"RETRIEVING", "GENERATING"}
  /\ Finish(r, "FAILED", "BudgetExceeded", passages[r])
  /\ UNCHANGED <<storeVars, passages, retrievalFailed, returned>>
  /\ UNCHANGED <<appVars, panelVars>>

\* the orchestrator hands the record to MetricsStore.record
handOver(r) ==
  /\ phase[r] \in Terminal
  /\ handed[r] = 0
  /\ handed' = [handed EXCEPT ![r] = 1]
  /\ writeResult' = [writeResult EXCEPT ![r] = "pending"]
  /\ UNCHANGED <<store, nextId, writeLock, pendingId, phase, passages,
                 retrievalFailed, outcome, metric, returned>>
  /\ UNCHANGED <<appVars, panelVars>>

\* Variant: writers enter record without waiting for each other.
MayWriteUnserialized(r) == TRUE
\* record: writers are serialized.
MayWrite(r) == writeLock = NoReq

\* record, first half: enter the write and read the identifier counter
recordBegin(r) ==
  /\ writeResult[r] = "pending"
  /\ pendingId[r] = 0
  /\ MayWrite(r)
  /\ writeLock' = r
  /\ pendingId' = [pendingId EXCEPT ![r] = nextId]
  /\ UNCHANGED <<store, nextId, handed, writeResult, phase, passages,
                 retrievalFailed, outcome, metric, returned>>
  /\ UNCHANGED <<appVars, panelVars>>

\* record, second half: the row becomes visible with its identifier
recordCommit(r) ==
  /\ writeResult[r] = "pending"
  /\ pendingId[r] # 0
  /\ store' = Append(store, [id |-> pendingId[r], req |-> r] @@ metric[r])
  /\ nextId' = pendingId[r] + 1
  /\ writeLock' = IF writeLock = r THEN NoReq ELSE writeLock
  /\ writeResult' = [writeResult EXCEPT ![r] = "ok"]
  /\ UNCHANGED <<handed, pendingId, phase, passages, retrievalFailed, outcome,
                 metric, returned>>
  /\ UNCHANGED <<appVars, panelVars>>

\* record raises MetricsWriteError: nothing is written, the failure is logged
recordFails(r) ==
  /\ writeResult[r] = "pending"
  /\ writeResult' = [writeResult EXCEPT ![r] = "MetricsWriteError"]
  /\ writeLock' = IF writeLock = r THEN NoReq ELSE writeLock
  /\ UNCHANGED <<store, nextId, handed, pendingId, phase, passages,
                 retrievalFailed, outcome, metric, returned>>
  /\ UNCHANGED <<appVars, panelVars>>

\* Variant: analyze returns without waiting for the record call.
ReturnReadyEarly(r) == phase[r] \in Terminal
\* analyze may return once the record call has ended.
ReturnReady(r) ==
  /\ phase[r] \in Terminal
  /\ writeResult[r] \in {"ok", "MetricsWriteError"}

\* Variant: a failed metrics write is raised in place of the outcome.
SurfacedWithWriteError(r) ==
  IF writeResult[r] = "MetricsWriteError" THEN "MetricsWriteError" ELSE outcome[r]
\* What the caller receives: the analysis outcome, whatever the write did.
Surfaced(r) == outcome[r]

\* analyze returns the result or raises the typed error
return(r) ==
  /\ returned[r] = "none"
  /\ ReturnReady(r)
  /\ returned' = [returned EXCEPT ![r] = Surfaced(r)]
  /\ UNCHANGED <<storeVars, phase, passages, retrievalFailed, outcome, metric>>
  /\ UNCHANGED <<appVars, panelVars>>

NextBackend ==
  \/ \E r \in Req, text \in SubmittedTexts : analyze(r, text)
  \/ \E r \in Req : startRetrieval(r)
  \/ \E r \in Req, k \in 0..TopK : retrieved(r, k)
  \/ \E r \in Req : retrievalFails(r)
  \/ \E r \in Req : generated(r)
  \/ \E r \in Req : generationFails(r)
  \/ \E r \in Req : budgetExceeded(r)
  \/ \E r \in Req : handOver(r)
  \/ \E r \in Req : recordBegin(r)
  \/ \E r \in Req : recordCommit(r)
  \/ \E r \in Req : recordFails(r)
  \/ \E r \in Req : return(r)

(***************************************************************************)
(* Specifications                                                          *)
(***************************************************************************)
Init ==
  /\ InitApp
  /\ InitPanel
  /\ InitBackend
  /\ store = <<>>
  /\ nextId = 1

SpecApp == Init /\ [][NextApp]_vars

\* Every request sent is answered, fails or times out after ClientTimeoutMs.
FairSpecApp == SpecApp /\ WF_vars(Settle)

InitPanelSpec ==
  /\ InitApp
  /\ InitPanel
  /\ InitBackend
  /\ \E k \in 0..MaxRows : store = StoredRows(k) /\ nextId = k + 1

SpecPanel ==
  InitPanelSpec /\ [][NextPanel]_vars

SpecBackend == Init /\ [][NextBackend]_vars

(***************************************************************************)
(* Claims                                                                  *)
(***************************************************************************)
RowsOf(r) == Cardinality({i \in 1..Len(store) : store[i].req = r})
AnalysisOutcomes == {"AnalysisResult", "GenerationError", "BudgetExceeded"}
HasReturned(r) == returned[r] \notin {"none", "ValidationError"}

C2_RecentMostRecentFirst ==
  \A ld \in loads :
    ld.m.st = "ok" =>
      LET res == ld.m.data
          n == Len(store)
      IN /\ Len(res) <= ld.limit
         /\ Len(res) = Min(ld.limit, n)
         /\ \A i, j \in 1..Len(res) : i < j => res[i].id > res[j].id
         /\ \A i \in 1..n :
              (\E j \in 1..Len(res) : res[j] = store[i]) <=> (i > n - Len(res))

C2_Witness ==
  \E ld \in loads :
    /\ ld.m.st = "ok"
    /\ ld.limit = 2
    /\ Len(store) = 3
    /\ Len(ld.m.data) = 2

C4_RetrievalFailureFallsBack ==
  /\ [](\A r \in Req :
          retrievalFailed[r] =>
            /\ phase[r] \in {"GENERATING", "COMPLETED", "FAILED"}
            /\ passages[r] = 0
            /\ outcome[r] \in {"none"} \cup AnalysisOutcomes
            /\ returned[r] \in {"none"} \cup AnalysisOutcomes
            /\ phase[r] \in Terminal => metric[r].numSources = 0
            /\ \A i \in 1..Len(store) : store[i].req = r => store[i].numSources = 0)
  /\ [][\A r \in Req :
          (~retrievalFailed[r] /\ retrievalFailed'[r]) =>
             (phase[r] = "RETRIEVING" /\ phase'[r] = "GENERATING")]_vars

C4_Witness ==
  \E r \in Req :
    /\ retrievalFailed[r]
    /\ returned[r] = "AnalysisResult"
    /\ \E i \in 1..Len(store) : store[i].req = r /\ store[i].numSources = 0

\* C5: a request whose generation failed returns GenerationError and its
\* MetricsRecord has success = false and a non-empty error; whatever the
\* metrics write did, the caller receives the analysis outcome.
C5_GenerationFailureReported ==
  \A r \in Req :
    /\ outcome[r] = "GenerationError" =>
         /\ phase[r] = "FAILED"
         /\ metric[r].success = FALSE
         /\ metric[r].error # ""
         /\ returned[r] \in {"none", "GenerationError"}
         /\ \A i \in 1..Len(store) :
              store[i].req = r => (~store[i].success /\ store[i].error # "")
    /\ HasReturned(r) => returned[r] = outcome[r]

C5_Witness ==
  \E r \in Req :
    /\ outcome[r] = "GenerationError"
    /\ writeResult[r] = "MetricsWriteError"
    /\ returned[r] = "GenerationError"

\* C6: every analyze request posted carries the alert under alertText and
\* the loaded log JSON, unchanged, under logPayload.
C6_RequestShape ==
  \A r \in inflight :
    /\ r.body.alertText = r.text
    /\ "logPayload" \in DOMAIN r.body
    /\ r.body.logPayload = r.log

\* C7: every analyze request posted carries a non-empty alertText.
C7_NeverEmptyAlert ==
  \A r \in inflight : r.text # "" /\ r.body.alertText # ""

C7_Witness ==
  \E r \in inflight :
    /\ alertText = ""
    /\ logJson = Null
    /\ r.log = SampleLog
    /\ r.body.alertText = SampleAlert

\* C8: at most one analyze request is in flight, isLoading is true exactly
\* while one is, and isLoading always becomes false again.
C8_LoadingTracksInFlight ==
  /\ [](Cardinality(inflight) <= 1 /\ (isLoading <=> inflight # {}))
  /\ (isLoading ~> ~isLoading)

C8_Witness ==
  /\ lastSettle = "timeout"
  /\ analyzeCount = 2
  /\ ~isLoading
  /\ inflight = {}

\* C9: result and error are never both set, and the step that settles an
\* analyze request sets exactly one of them.
C9_ResultXorError ==
  /\ [](~(Truthy(result) /\ Truthy(error)))
  /\ [][(inflight' # inflight /\ inflight' \subseteq inflight) =>
          (Truthy(result') # Truthy(error'))]_vars

C9_Witness ==
  /\ sampledInFlight
  /\ inflight = {}
  /\ lastSettle = "thrown"
  /\ error = FallbackError
  /\ ~Truthy(result)

\* C10: once no load is in flight the rows and summary shown are the answers
\* to the most recently started load, and loading is true whenever a load is
\* in flight.
C10_LatestLoadShown ==
  /\ loads # {} => loading
  /\ (loads = {} /\ lastLoad.settled = "ok") =>
       /\ rows = GetRecent(fetchMetrics(lastLoad.limit))
       /\ summary = <<GetSummary(fetchMetricsSummary(DefaultSummaryLimit))>>

====
